---- MODULE Spec2Model ----
(***************************************************************************)
(* Model of skills/advanced-sql-skill/scripts/execution_plan_analyzer.py:  *)
(* the ExecutionPlanAnalyzer class and the command-line entry point main.  *)
(*                                                                         *)
(* Representation choices                                                  *)
(*  - Python strings on which the code performs string operations (strip,  *)
(*    split, replace, slicing, upper, "in") are sequences of one-character *)
(*    strings.  Strings that are only stored and compared are TLA+ strings.*)
(*  - float values read from attributes are exact decimals held as an      *)
(*    integer number of tenths (Tenths) : "5.0" is 50, "0.5" is 5.  Binary   *)
(*    rounding of float division is not modelled; cost_percentage is the   *)
(*    exact rational [num, den] in lowest terms.                           *)
(*  - an XML attribute that is used as a number is a record [k, v]: k is   *)
(*    "absent", "empty" (the empty string), "bad" (a non-empty string that *)
(*    float() rejects) or "num" (a decimal, v tenths).                     *)
(*  - a document is the parsed tree reduced to the elements the code looks *)
(*    for: StmtSimple, RelOp (pre-order, with the index of the enclosing   *)
(*    RelOp), Object, Warnings, MissingIndexGroup.  Within a RelOp its own *)
(*    Object and Warnings children precede its nested RelOps; Warnings     *)
(*    blocks outside every RelOp precede the RelOps (showplan schema       *)
(*    order).                                                              *)
(***************************************************************************)
EXTENDS Integers, Sequences, FiniteSets, TLC

\* ------------------------------------------------------------------------
\* Bounds of the explored inputs
\* ------------------------------------------------------------------------
MaxStmts == 2      \* StmtSimple nodes per generated document
MaxOps == 2        \* RelOp nodes per generated document
MaxBlocks == 2     \* Warnings blocks outside operators per generated document
MaxMarkers == 2    \* NoJoinPredicate / UnmatchedIndexes markers per block
MaxEqCols == 3     \* columns per generated EQUALITY group
MaxRuns == 2       \* analyze_plan calls on one analyzer object
MaxGroups == 2     \* ColumnGroup nodes per generated MissingIndex
MaxIdxGroups == 3  \* MissingIndexGroup nodes per generated document
MaxObjects == 2    \* Object nodes per generated RelOp
MaxNoStats == 2    \* ColumnReference nodes per generated Warnings block

\* ------------------------------------------------------------------------
\* Program constants
\* ------------------------------------------------------------------------
Tenths(n) == n * 10         \* the decimal n.0 in the unit of the model
DefaultThreshold == Tenths(10)
PctClusteredScan == 20
PctHashMatch == 25
RowsSort == 100000
RatioBound == 10
IndexNameMax == 60
EqColsInName == 3

\* ------------------------------------------------------------------------
\* Character sequences (Python str operations)
\* ------------------------------------------------------------------------
RECURSIVE Rep(_, _)
Rep(c, n) == IF n <= 0 THEN <<>> ELSE <<c>> \o Rep(c, n - 1)

RECURSIVE lstrip(_, _)
lstrip(s, chars) ==
    IF s # <<>> /\ Head(s) \in chars THEN lstrip(Tail(s), chars) ELSE s

RECURSIVE rstrip(_, _)
rstrip(s, chars) ==
    IF s # <<>> /\ s[Len(s)] \in chars
    THEN rstrip(SubSeq(s, 1, Len(s) - 1), chars) ELSE s

\* str.strip(chars): drop leading and trailing characters that are in chars
strip(s, chars) == rstrip(lstrip(s, chars), chars)

\* str.replace(c, ''): delete every occurrence of the character c
replace(s, c) == SelectSeq(s, LAMBDA x : x # c)

\* s[:n]
Prefix(s, n) == SubSeq(s, 1, IF Len(s) < n THEN Len(s) ELSE n)

\* sep.join(list)
RECURSIVE join(_, _)
join(sep, list) ==
    IF list = <<>> THEN <<>>
    ELSE IF Len(list) = 1 THEN list[1]
    ELSE list[1] \o sep \o join(sep, Tail(list))

\* s.split('.')[-1]: what follows the last '.', the whole of s without one
LastDot(s) ==
    LET dots == {i \in 1..Len(s) : s[i] = "."}
    IN  IF dots = {} THEN 0 ELSE CHOOSE i \in dots : \A j \in dots : j <= i

\* sub in s
Contains(s, sub) ==
    \E i \in 0..(Len(s) - Len(sub)) : SubSeq(s, i + 1, i + Len(sub)) = sub

Lower == <<"a","b","c","d","e","f","g","h","i","j","k","l","m",
           "n","o","p","q","r","s","t","u","v","w","x","y","z">>
Upper == <<"A","B","C","D","E","F","G","H","I","J","K","L","M",
           "N","O","P","Q","R","S","T","U","V","W","X","Y","Z">>

\* str.upper()
upper(s) ==
    [i \in 1..Len(s) |->
        IF \E k \in 1..26 : Lower[k] = s[i]
        THEN Upper[CHOOSE k \in 1..26 : Lower[k] = s[i]]
        ELSE s[i]]

\* ------------------------------------------------------------------------
\* Numbers
\* ------------------------------------------------------------------------
Abs(n) == IF n < 0 THEN -n ELSE n

RECURSIVE GCD(_, _)
GCD(a, b) == IF b = 0 THEN a ELSE GCD(b, a % b)

\* the rational n/d (d > 0) in lowest terms
Ratio(n, d) ==
    LET g == GCD(Abs(n), d)
    IN  [num |-> n \div g, den |-> d \div g]

\* int(x) of the float x held as t tenths: truncation towards zero
int(t) == IF t >= 0 THEN t \div 10 ELSE -((-t) \div 10)

\* attribute values
Absent == [k |-> "absent", v |-> 0]
Empty == [k |-> "empty", v |-> 0]
Bad == [k |-> "bad", v |-> 0]
Num(t) == [k |-> "num", v |-> t]

\* truth value of element.get(name): None and '' are falsy
Truthy(attr) == attr.k \in {"bad", "num"}

\* float(s) raises ValueError on '' and on a non-numeric string
FloatFails(attr) == attr.k \in {"empty", "bad"}

\* float(element.get(name, 0)) where it does not raise, in tenths
FloatOf(attr) == IF attr.k = "num" THEN attr.v ELSE 0

None == <<>>
Some(n) == <<n>>

\* string attributes that may be absent: element.get(name, default)
StrAbsent == [present |-> FALSE, s |-> ""]
Str(s) == [present |-> TRUE, s |-> s]
get(attr, default) == IF attr.present THEN attr.s ELSE default

\* ------------------------------------------------------------------------
\* ExecutionPlanAnalyzer
\* ------------------------------------------------------------------------
\* __init__: a fresh analyzer
__init__(threshold_percentage) ==
    [threshold_percentage |-> threshold_percentage,
     expensive_operators |-> <<>>,
     missing_indexes |-> <<>>,
     warnings |-> <<>>,
     total_cost |-> 0]

\* outcome of a pass: the analyzer as the pass left it, and whether the pass
\* was ended by an exception (ValueError of float())
Ok(self) == [self |-> self, err |-> FALSE]
Raised(self) == [self |-> self, err |-> TRUE]

\* the loop without its break: the last statement with a cost wins
RECURSIVE total_cost_loop_last(_, _, _)
total_cost_loop_last(self, stmts, i) ==
    IF i > Len(stmts) THEN Ok(self)
    ELSE LET cost == stmts[i]
         IN  IF ~Truthy(cost) THEN total_cost_loop_last(self, stmts, i + 1)
             ELSE IF FloatFails(cost) THEN Raised(self)
             ELSE total_cost_loop_last(
                      [self EXCEPT !.total_cost = FloatOf(cost)],
                      stmts, i + 1)

\* _extract_total_cost, the loop from the i-th StmtSimple on
RECURSIVE total_cost_loop(_, _, _)
total_cost_loop(self, stmts, i) ==
    IF i > Len(stmts) THEN Ok(self)
    ELSE LET cost == stmts[i]
         IN  IF ~Truthy(cost) THEN total_cost_loop(self, stmts, i + 1)
             ELSE IF FloatFails(cost) THEN Raised(self)
             ELSE Ok([self EXCEPT !.total_cost = FloatOf(cost)])

_extract_total_cost(self, root) == total_cost_loop(self, root.stmts, 1)

\* relop j lies strictly beneath relop i
RECURSIVE Beneath(_, _, _)
Beneath(relops, i, j) ==
    LET p == relops[j].parent
    IN  IF p = 0 THEN FALSE
        ELSE IF p = i THEN TRUE
        ELSE Beneath(relops, i, p)

\* relop.findall('.//p:Object') / relop.findall('.//p:Warnings'): the
\* children named by field of relop i and of every relop beneath it, in
\* document order
RECURSIVE descendants(_, _, _, _)
descendants(relops, i, j, field) ==
    IF j > Len(relops) THEN <<>>
    ELSE (IF j = i \/ Beneath(relops, i, j) THEN relops[j][field] ELSE <<>>)
         \o descendants(relops, i, j + 1, field)

\* lines 124-128: every Object found overwrites both names
RECURSIVE object_loop(_, _)
object_loop(names, objs) ==
    IF objs = <<>> THEN names
    ELSE object_loop(
            [object_name |-> get(Head(objs).Table, get(Head(objs).Index, "")),
             index_name |-> get(Head(objs).Index, "")],
            Tail(objs))

NoStatsPrefix ==
    <<"N","o"," ","s","t","a","t","i","s","t","i","c","s"," ","o","n"," ",
      "c","o","l","u","m","n",":"," ">>

\* lines 131-136: one string per ColumnReference of every Warnings block
RECURSIVE warning_loop(_)
warning_loop(blocks) ==
    IF blocks = <<>> THEN <<>>
    ELSE [k \in 1..Len(Head(blocks).nostats) |->
             NoStatsPrefix \o Head(blocks).nostats[k]]
         \o warning_loop(Tail(blocks))

\* the share computed as a fraction of 1 instead of a percentage
cost_fraction_of(estimated_cost, total_cost) ==
    IF total_cost > 0
    THEN Ratio(estimated_cost, total_cost)
    ELSE Ratio(0, 1)

\* lines 119-121
cost_percentage_of(estimated_cost, total_cost) ==
    IF total_cost > 0
    THEN Ratio(100 * estimated_cost, total_cost)
    ELSE Ratio(0, 1)

\* _extract_operator_info raises when a numeric attribute does not parse
operator_info_raises(relop) ==
    \/ FloatFails(relop.EstimatedTotalSubtreeCost)
    \/ FloatFails(relop.EstimateRows)
    \/ (Truthy(relop.ActualRows) /\ FloatFails(relop.ActualRows))

_extract_operator_info(self, root, i) ==
    LET relop == root.relops[i]
        physical_op == get(relop.PhysicalOp, "")
        estimated_cost == FloatOf(relop.EstimatedTotalSubtreeCost)
        estimated_rows == int(FloatOf(relop.EstimateRows))
        names == object_loop([object_name |-> "", index_name |-> ""],
                             descendants(root.relops, i, 1, "objects"))
        warnings == warning_loop(descendants(root.relops, i, 1, "warnings"))
        actual_rows == IF Truthy(relop.ActualRows)
                       THEN Some(int(FloatOf(relop.ActualRows)))
                       ELSE None
    IN  [name |-> physical_op,
         cost_percentage |-> cost_percentage_of(estimated_cost, self.total_cost),
         estimated_rows |-> estimated_rows,
         actual_rows |-> actual_rows,
         object_name |-> names.object_name,
         index_name |-> names.index_name,
         warnings |-> warnings,
         details |-> [logical_op |-> get(relop.LogicalOp, ""),
                      physical_op |-> physical_op,
                      estimated_cost |-> estimated_cost,
                      estimated_cpu |-> get(relop.EstimateCPU, "0"),
                      estimated_io |-> get(relop.EstimateIO, "0")]]

\* comparisons of a cost_percentage with a number of percent / of tenths
PctGreater(pct, n) == pct.num > n * pct.den
PctAtLeastTenths(pct, t) == pct.num * 10 >= t * pct.den

\* an entry of self.warnings: the message kind and the values the f-string
\* interpolates (fields a message does not use are "" / 0 / None)
Warning(kind, object, rows, actual, pct) ==
    [kind |-> kind, object |-> object, rows |-> rows, actual |-> actual,
     pct |-> pct]
NoPct == Ratio(0, 1)

ConvertImplicit ==
    <<"C","O","N","V","E","R","T","_","I","M","P","L","I","C","I","T">>

\* the rule table with its three bounds taken as inclusive
kind_warnings_inclusive(info) ==
    LET w(kind, object) == <<Warning(kind, object, info.estimated_rows,
                                     None, info.cost_percentage)>>
    IN  IF info.name = "Table Scan" THEN w("TABLE SCAN", info.object_name)
        ELSE IF info.name = "Clustered Index Scan"
        THEN (IF ~PctGreater(info.cost_percentage, PctClusteredScan)
                 /\ info.cost_percentage.num
                        # PctClusteredScan * info.cost_percentage.den
              THEN <<>> ELSE w("CLUSTERED INDEX SCAN", info.object_name))
        ELSE IF info.name = "Key Lookup" \/ info.name = "RID Lookup"
        THEN w("KEY LOOKUP", info.object_name)
        ELSE IF info.name = "Sort"
        THEN (IF info.estimated_rows >= RowsSort THEN w("SORT", "")
              ELSE <<>>)
        ELSE IF info.name = "Hash Match"
        THEN (IF ~PctGreater(info.cost_percentage, PctHashMatch)
                 /\ info.cost_percentage.num
                        # PctHashMatch * info.cost_percentage.den
              THEN <<>> ELSE w("HASH MATCH", ""))
        ELSE <<>>

\* lines 171-211: the if / elif chain on the physical operator
kind_warnings(info) ==
    LET w(kind) == <<Warning(kind, info.object_name, info.estimated_rows,
                             None, info.cost_percentage)>>
    IN  IF info.name = "Table Scan" THEN w("TABLE SCAN")
        ELSE IF info.name = "Clustered Index Scan"
        THEN (IF PctGreater(info.cost_percentage, PctClusteredScan)
              THEN w("CLUSTERED INDEX SCAN") ELSE <<>>)
        ELSE IF info.name = "Key Lookup" \/ info.name = "RID Lookup"
        THEN w("KEY LOOKUP")
        ELSE IF info.name = "Sort"
        THEN (IF info.estimated_rows > RowsSort
              THEN <<Warning("SORT", "", info.estimated_rows, None,
                             info.cost_percentage)>>
              ELSE <<>>)
        ELSE IF info.name = "Hash Match"
        THEN (IF PctGreater(info.cost_percentage, PctHashMatch)
              THEN <<Warning("HASH MATCH", "", info.estimated_rows, None,
                             info.cost_percentage)>>
              ELSE <<>>)
        ELSE <<>>

\* the marker searched in the warning as written, without upper()
RECURSIVE implicit_warnings_case_sensitive(_, _)
implicit_warnings_case_sensitive(info, ws) ==
    IF ws = <<>> THEN <<>>
    ELSE (IF Contains(Head(ws), ConvertImplicit)
          THEN <<Warning("IMPLICIT CONVERSION", info.object_name, 0, None,
                         NoPct)>>
          ELSE <<>>)
         \o implicit_warnings_case_sensitive(info, Tail(ws))

\* lines 214-220
RECURSIVE implicit_warnings(_, _)
implicit_warnings(info, ws) ==
    IF ws = <<>> THEN <<>>
    ELSE (IF Contains(upper(Head(ws)), ConvertImplicit)
          THEN <<Warning("IMPLICIT CONVERSION", info.object_name, 0, None,
                         NoPct)>>
          ELSE <<>>)
         \o implicit_warnings(info, Tail(ws))

\* the 10x bounds taken as inclusive
ratio_out_of_bounds_inclusive(actual, estimated) ==
    \/ actual >= RatioBound * estimated
    \/ RatioBound * actual <= estimated

\* line 225 on ratio = actual / estimated with estimated > 0
ratio_out_of_bounds(actual, estimated) ==
    \/ actual > RatioBound * estimated
    \/ RatioBound * actual < estimated

\* the guard of line 223 admitting an estimate of zero rows
row_warnings_zero_estimate(info) ==
    IF info.actual_rows # None /\ info.estimated_rows >= 0
    THEN (IF \/ info.actual_rows[1] > RatioBound * info.estimated_rows
             \/ RatioBound * info.actual_rows[1] < info.estimated_rows
          THEN <<[kind |-> "ROW ESTIMATION ERROR",
                  object |-> info.object_name,
                  rows |-> info.estimated_rows, actual |-> info.actual_rows,
                  pct |-> [num |-> 0, den |-> 1]]>>
          ELSE <<>>)
    ELSE <<>>

\* the guard without its test of the estimate
row_guard_actual_only(info) == info.actual_rows # None

\* line 223: the condition under which line 224 divides
row_guard(info) == info.actual_rows # None /\ info.estimated_rows > 0

\* line 224 raises ZeroDivisionError when it divides by an estimate of 0
ratio_raises(info) == row_guard(info) /\ info.estimated_rows = 0

\* lines 223-230
row_warnings(info) ==
    IF row_guard(info)
    THEN (IF ratio_out_of_bounds(info.actual_rows[1], info.estimated_rows)
          THEN <<Warning("ROW ESTIMATION ERROR", info.object_name,
                         info.estimated_rows, info.actual_rows, NoPct)>>
          ELSE <<>>)
    ELSE <<>>

\* the warnings appended only when the list does not hold them yet
_check_problem_operators_dedup(self, info) ==
    LET new == kind_warnings(info) \o implicit_warnings(info, info.warnings)
               \o row_warnings(info)
        held == {self.warnings[k] : k \in 1..Len(self.warnings)}
    IN  [self EXCEPT !.warnings =
            @ \o SelectSeq(new, LAMBDA w : w \notin held)]

_check_problem_operators(self, info) ==
    [self EXCEPT !.warnings =
        @ \o kind_warnings(info) \o implicit_warnings(info, info.warnings)
          \o row_warnings(info)]

\* the threshold taken as an exclusive bound
is_expensive_strict(self, info) ==
    /\ PctAtLeastTenths(info.cost_percentage, self.threshold_percentage)
    /\ info.cost_percentage.num * 10
          # self.threshold_percentage * info.cost_percentage.den

\* line 106
is_expensive(self, info) ==
    PctAtLeastTenths(info.cost_percentage, self.threshold_percentage)

\* the classification rules run only on the operators that passed the
\* threshold (line 110 indented into the if of line 106)
RECURSIVE operators_loop_expensive_only(_, _, _)
operators_loop_expensive_only(self, root, i) ==
    IF i > Len(root.relops) THEN Ok(self)
    ELSE IF operator_info_raises(root.relops[i]) THEN Raised(self)
    ELSE LET operator_info == _extract_operator_info(self, root, i)
             self1 == IF PctAtLeastTenths(operator_info.cost_percentage,
                                          self.threshold_percentage)
                      THEN _check_problem_operators(
                               [self EXCEPT !.expensive_operators =
                                                Append(@, operator_info)],
                               operator_info)
                      ELSE self
         IN  operators_loop_expensive_only(self1, root, i + 1)

\* _analyze_operators, the loop from the i-th RelOp on
RECURSIVE operators_loop(_, _, _)
operators_loop(self, root, i) ==
    IF i > Len(root.relops) THEN Ok(self)
    ELSE IF operator_info_raises(root.relops[i]) THEN Raised(self)
    ELSE LET operator_info == _extract_operator_info(self, root, i)
             self1 == IF is_expensive(self, operator_info)
                      THEN [self EXCEPT !.expensive_operators =
                                            Append(@, operator_info)]
                      ELSE self
         IN  operators_loop(_check_problem_operators(self1, operator_info),
                            root, i + 1)

_analyze_operators(self, root) == operators_loop(self, root, 1)

\* ------------------------------------------------------------------------
\* Missing indexes
\* ------------------------------------------------------------------------
Brackets == {"[", "]"}
sIX == <<"I","X","_">>
sCreate ==
    <<"C","R","E","A","T","E"," ","N","O","N","C","L","U","S","T","E","R",
      "E","D"," ","I","N","D","E","X"," ">>
sOn == <<"\n","O","N"," ">>
sInclude == <<"\n","I","N","C","L","U","D","E"," ","(">>

\* [f"[{col}]" for col in columns]
bracketed(columns) ==
    [k \in 1..Len(columns) |-> <<"[">> \o columns[k] \o <<"]">>]

\* lines 273-277
bare_table_name(table) ==
    IF LastDot(table) = 0 THEN table
    ELSE SubSeq(table, LastDot(table) + 1, Len(table))

\* line 280
raw_index_name(table, equality) ==
    replace(replace(sIX \o bare_table_name(table) \o <<"_">>
                        \o join(<<"_">>, Prefix(equality, EqColsInName)),
                    "["),
            "]")

\* the cut keeping one character too many
truncate_off_by_one(index_name) ==
    IF Len(index_name) > IndexNameMax
    THEN SubSeq(index_name, 1, IndexNameMax + 1)
    ELSE index_name

\* lines 281-282
truncate(index_name) ==
    IF Len(index_name) > IndexNameMax
    THEN Prefix(index_name, IndexNameMax)
    ELSE index_name

synthesized_index_name(table, equality) ==
    truncate(raw_index_name(table, equality))

\* the key list built as inequality + equality
on_target_inequality_first(table, equality, inequality) ==
    table \o <<" ", "(">>
          \o join(<<",", " ">>, bracketed(inequality \o equality))
          \o <<")">>

\* line 294: the text after "ON "
on_target(table, equality, inequality) ==
    table \o <<" ", "(">>
          \o join(<<",", " ">>, bracketed(equality \o inequality))
          \o <<")">>

\* lines 289-292
include_clause(included) ==
    IF included # <<>>
    THEN sInclude \o join(<<",", " ">>, bracketed(included)) \o <<")">>
    ELSE <<>>

_generate_create_index(table, equality, inequality, included) ==
    sCreate \o synthesized_index_name(table, equality)
            \o sOn \o on_target(table, equality, inequality)
            \o include_clause(included) \o <<";">>

sEQUALITY == "EQUALITY"
sINEQUALITY == "INEQUALITY"
sINCLUDE == "INCLUDE"

\* lines 245-255: each ColumnGroup assigns the list of its usage
RECURSIVE column_group_loop(_, _)
column_group_loop(lists, groups) ==
    IF groups = <<>> THEN lists
    ELSE LET col_group == Head(groups)
             columns == [k \in 1..Len(col_group.columns) |->
                            strip(col_group.columns[k], Brackets)]
             lists1 ==
                 IF col_group.Usage = sEQUALITY
                 THEN [lists EXCEPT !.equality_cols = columns]
                 ELSE IF col_group.Usage = sINEQUALITY
                 THEN [lists EXCEPT !.inequality_cols = columns]
                 ELSE IF col_group.Usage = sINCLUDE
                 THEN [lists EXCEPT !.included_cols = columns]
                 ELSE lists
         IN  column_group_loop(lists1, Tail(groups))

\* lines 237-267: the record built for one MissingIndex node
missing_index_record(impact, idx) ==
    LET table == strip(idx.Table, Brackets)
        lists == column_group_loop(
                    [equality_cols |-> <<>>, inequality_cols |-> <<>>,
                     included_cols |-> <<>>], idx.groups)
    IN  [impact |-> impact,
         table_name |-> table,
         equality_columns |-> lists.equality_cols,
         inequality_columns |-> lists.inequality_cols,
         included_columns |-> lists.included_cols,
         create_statement |->
             _generate_create_index(table, lists.equality_cols,
                                    lists.inequality_cols,
                                    lists.included_cols)]

\* _extract_missing_indexes, the loop from the g-th MissingIndexGroup on
RECURSIVE missing_loop(_, _, _)
missing_loop(self, groups, g) ==
    IF g > Len(groups) THEN Ok(self)
    ELSE IF FloatFails(groups[g].Impact) THEN Raised(self)
    ELSE LET impact == FloatOf(groups[g].Impact)
             records == [k \in 1..Len(groups[g].indexes) |->
                            missing_index_record(impact, groups[g].indexes[k])]
         IN  missing_loop([self EXCEPT !.missing_indexes = @ \o records],
                          groups, g + 1)

_extract_missing_indexes(self, root) == missing_loop(self, root.missing, 1)

\* ------------------------------------------------------------------------
\* Plan-level warnings
\* ------------------------------------------------------------------------
PlainWarning(kind) == Warning(kind, "", 0, None, NoPct)

RECURSIVE relop_children(_, _, _)
relop_children(relops, j, field) ==
    IF j > Len(relops) THEN <<>>
    ELSE relops[j][field] \o relop_children(relops, j + 1, field)

\* root.findall('.//p:Warnings'): every Warnings element of the document
all_warnings_blocks(root) ==
    root.plan_warnings \o relop_children(root.relops, 1, "warnings")

\* lines 300-310 for one Warnings element
block_warnings(warning) ==
    (IF warning.NoJoinPredicate > 0
     THEN <<PlainWarning("NO JOIN PREDICATE")>> ELSE <<>>)
    \o [k \in 1..warning.UnmatchedIndexes |->
           PlainWarning("UNMATCHED INDEXES")]

RECURSIVE extract_warnings_loop(_)
extract_warnings_loop(blocks) ==
    IF blocks = <<>> THEN <<>>
    ELSE block_warnings(Head(blocks)) \o extract_warnings_loop(Tail(blocks))

\* the collector starting from an empty list instead of appending
_extract_warnings_resetting(self, root) ==
    [self EXCEPT !.warnings = extract_warnings_loop(all_warnings_blocks(root))]

_extract_warnings(self, root) ==
    [self EXCEPT !.warnings = @ \o extract_warnings_loop(all_warnings_blocks(root))]

\* ------------------------------------------------------------------------
\* Report
\* ------------------------------------------------------------------------
PctGE(p, q) == p.num * q.den >= q.num * p.den

\* a descending sort that is not stable: x goes in front of the elements
\* whose key equals its own
RECURSIVE sorted_by_cost_unstable(_)
sorted_by_cost_unstable(list) ==
    IF list = <<>> THEN <<>>
    ELSE LET x == list[Len(list)]
             s == sorted_by_cost_unstable(SubSeq(list, 1, Len(list) - 1))
             n == Cardinality({k \in 1..Len(s) :
                      ~PctGE(x.cost_percentage, s[k].cost_percentage)})
         IN  SubSeq(s, 1, n) \o <<x>> \o SubSeq(s, n + 1, Len(s))

\* position at which a stable descending sort puts x into the sorted list s:
\* behind every element whose key is >= the key of x
RECURSIVE sorted_by_cost(_)
sorted_by_cost(list) ==
    IF list = <<>> THEN <<>>
    ELSE LET x == list[Len(list)]
             s == sorted_by_cost(SubSeq(list, 1, Len(list) - 1))
             n == Cardinality({k \in 1..Len(s) :
                      PctGE(s[k].cost_percentage, x.cost_percentage)})
         IN  SubSeq(s, 1, n) \o <<x>> \o SubSeq(s, n + 1, Len(s))

RECURSIVE sorted_by_impact(_)
sorted_by_impact(list) ==
    IF list = <<>> THEN <<>>
    ELSE LET x == list[Len(list)]
             s == sorted_by_impact(SubSeq(list, 1, Len(list) - 1))
             n == Cardinality({k \in 1..Len(s) : s[k].impact >= x.impact})
         IN  SubSeq(s, 1, n) \o <<x>> \o SubSeq(s, n + 1, Len(s))

NoReport == <<>>

\* what print_report writes, section by section
print_report(self) ==
    <<[summary |-> [total_cost |-> self.total_cost,
                    expensive_operators |-> Len(self.expensive_operators),
                    missing_indexes |-> Len(self.missing_indexes),
                    warnings |-> Len(self.warnings)],
       expensive_operators |-> sorted_by_cost(self.expensive_operators),
       warnings |-> self.warnings,
       missing_indexes |-> sorted_by_impact(self.missing_indexes)]>>

\* ------------------------------------------------------------------------
\* Documents
\* ------------------------------------------------------------------------
SeqsUpTo(S, n) == UNION {[1..k -> S] : k \in 0..n}
SeqsFromTo(S, m, n) == UNION {[1..k -> S] : k \in m..n}

Object(table, index) == [Table |-> table, Index |-> index]

Block(nojoin, unmatched, nostats) ==
    [NoJoinPredicate |-> nojoin, UnmatchedIndexes |-> unmatched,
     nostats |-> nostats]

RelOp(physical_op, cost, rows, actual, objects, warnings, parent) ==
    [PhysicalOp |-> physical_op, LogicalOp |-> StrAbsent,
     EstimatedTotalSubtreeCost |-> cost, EstimateRows |-> rows,
     ActualRows |-> actual, EstimateCPU |-> StrAbsent,
     EstimateIO |-> StrAbsent, objects |-> objects, warnings |-> warnings,
     parent |-> parent]

ColumnGroup(usage, columns) == [Usage |-> usage, columns |-> columns]
MissingIndexNode(table, groups) == [Table |-> table, groups |-> groups]
MissingIndexGroup(impact, indexes) == [Impact |-> impact, indexes |-> indexes]

Doc(stmts, relops, plan_warnings, missing) ==
    [stmts |-> stmts, relops |-> relops, plan_warnings |-> plan_warnings,
     missing |-> missing]

EmptyDoc == Doc(<<>>, <<>>, <<>>, <<>>)

\* --- documents that vary costs
StmtCosts == {Absent, Empty, Num(0), Num(100), Num(40)}
OpCosts == {Absent, Num(0), Num(5), Num(10), Num(50), Num(150)}
CostOp(name, cost) ==
    RelOp(Str(name), cost, Num(1000), Absent,
          <<Object(Str("Orders"), StrAbsent)>>, <<>>, 0)
CostOps == {CostOp(n, c) : n \in {"Table Scan", "Hash Match"}, c \in OpCosts}
CostDocs ==
    {Doc(st, <<op>>, <<>>, <<>>) : st \in SeqsUpTo(StmtCosts, MaxStmts),
                                  op \in CostOps}
    \cup {Doc(<<Num(100)>>, ops, <<>>, <<>>) :
             ops \in SeqsFromTo(CostOps, 1, MaxOps)}

\* --- documents that vary row counts
EstimateRowsValues ==
    {Absent, Num(0), Num(5), Num(10), Num(100), Num(1000), Num(1005)}
ActualRowsValues ==
    {Absent, Empty, Num(0), Num(10), Num(90), Num(100), Num(110),
     Num(1000), Num(10000), Num(10010)}
RowDocs ==
    {Doc(<<Num(100)>>,
         <<RelOp(Str("Nested Loops"), Num(10), e, a, <<>>, <<>>, 0)>>,
         <<>>, <<>>) : e \in EstimateRowsValues, a \in ActualRowsValues}

\* --- documents that vary Warnings blocks
PlanBlocks ==
    {Block(n, u, <<>>) : n \in 0..MaxMarkers, u \in 0..1}
OperatorBlocks ==
    {<<>>, <<Block(0, 0, <<>>)>>, <<Block(1, 0, <<>>)>>, <<Block(0, 1, <<>>)>>}
WarnOps ==
    {<<>>} \cup
    {<<RelOp(Str(n), Num(50), Num(1000), Absent, <<>>, w, 0)>> :
        n \in {"Table Scan", "Nested Loops"}, w \in OperatorBlocks}
WarnDocs ==
    {Doc(<<Num(100)>>, ops, pw, <<>>) :
        ops \in WarnOps, pw \in SeqsUpTo(PlanBlocks, MaxBlocks)}

\* --- documents that vary missing-index suggestions
sDboEmployees ==
    <<"[","d","b","o","]",".","[","E","m","p","l","o","y","e","e","s","]">>
sOrders == <<"O","r","d","e","r","s">>
sBracketOrders == <<"[","O","r","d","e","r","s","]">>
sDepartment == <<"D","e","p","a","r","t","m","e","n","t">>
sSalary == <<"S","a","l","a","r","y">>
sBracketId == <<"[","I","d","]">>
sHireDate == <<"H","i","r","e","D","a","t","e">>
LongTable == Rep("T", 46)
LongColumn == Rep("c", 24)

Tables == {sDboEmployees, sOrders, sBracketOrders, LongTable}
EqualityColumns == {sDepartment, sBracketId, LongColumn}
IdxDocs ==
    {Doc(<<Num(100)>>, <<>>, <<>>,
         <<MissingIndexGroup(Num(955),
             <<MissingIndexNode(t,
                 <<ColumnGroup(sEQUALITY, eq)>> \o ineq \o inc)>>)>>) :
        t \in Tables,
        eq \in SeqsUpTo(EqualityColumns, MaxEqCols),
        ineq \in {<<>>, <<ColumnGroup(sINEQUALITY, <<sHireDate>>)>>},
        inc \in {<<>>, <<ColumnGroup(sINCLUDE, <<sSalary>>)>>}}

\* --- documents with an attribute that float() rejects
RaisingDocs ==
    {Doc(<<c>>, <<RelOp(Str("Table Scan"), Num(50), Num(1000), Absent,
                         <<>>, <<>>, 0),
                   RelOp(Str("Sort"), oc, r, a, <<>>, <<>>, 0)>>, <<>>,
         <<MissingIndexGroup(i, <<MissingIndexNode(sOrders, <<>>)>>)>>) :
        c \in {Num(100), Bad}, oc \in {Num(10), Empty, Bad},
        r \in {Num(10), Empty}, a \in {Absent, Bad}, i \in {Absent, Empty}}

\* --- documents that vary the column groups of one suggestion
sId == <<"I","d">>
sItems == <<"I","t","e","m","s">>
GroupUsages == {sEQUALITY, sINEQUALITY, sINCLUDE, "OTHER"}
GroupColumns == {<<sBracketId>>, <<sSalary, sId>>}
ColumnGroups == {ColumnGroup(u, cs) : u \in GroupUsages, cs \in GroupColumns}
GroupDocs ==
    {Doc(<<Num(100)>>, <<>>, <<>>,
         <<MissingIndexGroup(Num(500), <<MissingIndexNode(sOrders, gs)>>)>>) :
        gs \in SeqsUpTo(ColumnGroups, MaxGroups)}

\* --- documents that vary the impact of several suggestion groups
ImpactGroups ==
    {MissingIndexGroup(i, <<MissingIndexNode(t, <<>>)>>) :
        i \in {Absent, Num(500), Num(955)}, t \in {sOrders}}
    \cup {MissingIndexGroup(Num(500), <<MissingIndexNode(sItems, <<>>)>>)}
ImpactDocs ==
    {Doc(<<Num(100)>>, <<>>, <<>>, gs) :
        gs \in SeqsFromTo(ImpactGroups, 1, MaxIdxGroups)}

\* --- documents that vary the Object nodes of one operator
Objects ==
    {Object(Str("A"), Str("IX_A")), Object(StrAbsent, Str("IX_B")),
     Object(StrAbsent, StrAbsent), Object(Str("B"), StrAbsent)}
ObjDocs ==
    {Doc(<<Num(100)>>,
         <<RelOp(Str("Table Scan"), Num(50), Num(1000), Absent, objs, <<>>,
                 0)>>, <<>>, <<>>) :
        objs \in SeqsUpTo(Objects, MaxObjects)}

\* --- documents with operators nested in operators
NestDocs ==
    {Doc(<<Num(100)>>,
         <<RelOp(Str(pn), Num(100), Num(1000), Absent, po, pw, 0),
           RelOp(Str("Index Seek"), Num(50), Num(1000), Absent, co, cw, 1)>>
         \o third, <<>>, <<>>) :
        pn \in {"Nested Loops", "Sort"},
        po \in {<<>>, <<Object(Str("P"), StrAbsent)>>},
        pw \in {<<>>, <<Block(0, 0, <<sSalary>>)>>},
        co \in {<<>>, <<Object(Str("A"), Str("IX_A"))>>},
        cw \in {<<>>, <<Block(0, 0, <<sId>>)>>},
        third \in {<<>>} \cup
            {<<RelOp(Str("Table Scan"), Num(20), Num(1000), Absent,
                     <<Object(Str("B"), StrAbsent)>>, <<>>, p)>> :
                p \in 0..2}}

\* --- documents with several warning operators above plan-level blocks
OrderOps ==
    {RelOp(Str(n), Num(50), Num(1000), a, <<>>, w, 0) :
        n \in {"Table Scan", "Hash Match"}, a \in {Absent},
        w \in {<<>>, <<Block(1, 0, <<>>)>>}}
OrderDocs ==
    {Doc(<<Num(100)>>, ops, pw, <<>>) :
        ops \in SeqsFromTo(OrderOps, 2, MaxOps),
        pw \in {<<>>, <<Block(0, 2, <<>>)>>}}

\* --- documents around the bounds of the operator-kind rules
KindNames ==
    {Str("Table Scan"), Str("Clustered Index Scan"), Str("Key Lookup"),
     Str("RID Lookup"), Str("Sort"), Str("Hash Match"), Str("Nested Loops"),
     StrAbsent}
KindCosts == {Num(200), Num(201), Num(250), Num(251)}
KindRows == {Num(1000000), Num(1000005), Num(1000010)}
KindDocs ==
    {Doc(<<Num(1000)>>, <<RelOp(n, c, r, Absent, <<>>, <<>>, 0)>>,
         <<>>, <<>>) : n \in KindNames, c \in KindCosts, r \in KindRows}

\* --- documents whose operator-local warnings may hold the marker
sConvertImplicitLower ==
    <<"c","o","n","v","e","r","t","_","i","m","p","l","i","c","i","t">>
sConvert == <<"c","o","n","v","e","r","t">>
NoStatsColumns ==
    {sId, sConvert, sConvertImplicitLower,
     <<"[">> \o ConvertImplicit \o <<"]">>}
ImplicitDocs ==
    {Doc(<<Num(100)>>,
         <<RelOp(Str(n), Num(50), Num(1000), a,
                 <<Object(Str("Orders"), StrAbsent)>>,
                 <<Block(0, 0, cols)>>, 0)>>, <<>>, <<>>) :
        n \in {"Table Scan", "Nested Loops"}, a \in {Absent, Num(0)},
        cols \in SeqsUpTo(NoStatsColumns, MaxNoStats)}

Thresholds == {0, DefaultThreshold, Tenths(50)}

\* the (document, --threshold) pairs a command-line run is started with
Inputs ==
    (CostDocs \X Thresholds)
    \cup ((RowDocs \cup WarnDocs \cup IdxDocs \cup RaisingDocs
              \cup GroupDocs \cup ImpactDocs \cup ObjDocs \cup NestDocs
              \cup OrderDocs \cup KindDocs \cup ImplicitDocs)
          \X {DefaultThreshold})

\* ------------------------------------------------------------------------
\* State
\* ------------------------------------------------------------------------
\* file: the file at the path of --file, [status, root]
\* args: the parsed command line, [threshold]
\* root[a]: the document analyzer a is given
\* analyzer[a]: the fields of ExecutionPlanAnalyzer object a
\* pc[a]: where the run that uses analyzer a stands
\* trace[a]: the methods of analyzer a that were entered
\* stdout, stderr: the lines written with print / on the error stream
\* exit_code: None while the process runs, Some(code) once it ended
\* report: what print_report wrote
VARIABLES file, args, root, analyzer, pc, trace, stdout, stderr, exit_code, report

vars == <<file, args, root, analyzer, pc, trace, stdout, stderr, exit_code,
          report>>

Ids == {1, 2}

\* the existence check left out
exists_unchecked(f) == TRUE

\* Path(args.file).exists()
exists(f) == f.status # "missing"

\* the analyzer slot before line 415 ran
Unconstructed == __init__(0)

\* --- command line run: main uses analyzer 1
Init ==
    /\ \E in \in Inputs, st \in {"missing", "malformed", "wellformed"} :
          /\ file = [status |-> st,
                     root |-> IF st = "wellformed" THEN in[1] ELSE EmptyDoc]
          /\ args = [threshold |-> in[2]]
          /\ (st # "wellformed" => in \in RowDocs \X {DefaultThreshold})
    /\ root = [a \in Ids |-> EmptyDoc]
    /\ analyzer = [a \in Ids |-> Unconstructed]
    /\ pc = [a \in Ids |-> IF a = 1 THEN "main" ELSE "unused"]
    /\ trace = [a \in Ids |-> <<>>]
    /\ stdout = <<>>
    /\ stderr = <<>>
    /\ exit_code = None
    /\ report = NoReport

\* lines 409-411: the path does not exist
MainFileMissing ==
    /\ pc[1] = "main"
    /\ ~exists(file)
    /\ stdout' = Append(stdout, "Error: File not found")
    /\ exit_code' = Some(1)
    /\ pc' = [pc EXCEPT ![1] = "exit"]
    /\ UNCHANGED <<file, args, root, analyzer, trace, stderr, report>>

\* lines 409-416: the path exists; the analyzer is built and analyze_file
\* is entered
MainBegin ==
    /\ pc[1] = "main"
    /\ exists(file)
    /\ stdout' = Append(stdout, "Analyzing execution plan")
    /\ analyzer' = [analyzer EXCEPT ![1] = __init__(args.threshold)]
    /\ trace' = [trace EXCEPT ![1] = Append(@, "analyze_file")]
    /\ pc' = [pc EXCEPT ![1] = "parse"]
    /\ UNCHANGED <<file, args, root, stderr, exit_code, report>>

\* the environment removes the file between the check and the read
Unlink ==
    /\ pc[1] = "parse"
    /\ exists(file)
    /\ file' = [status |-> "missing", root |-> EmptyDoc]
    /\ UNCHANGED <<args, root, analyzer, pc, trace, stdout, stderr,
                   exit_code, report>>

\* lines 75-77: ET.parse succeeds, analyze_plan is entered
ParseOk ==
    /\ pc[1] = "parse"
    /\ file.status = "wellformed"
    /\ root' = [root EXCEPT ![1] = file.root]
    /\ trace' = [trace EXCEPT ![1] = Append(@, "analyze_plan")]
    /\ pc' = [pc EXCEPT ![1] = "total_cost"]
    /\ UNCHANGED <<file, args, analyzer, stdout, stderr, exit_code, report>>

\* the handler of ParseError without its sys.exit(1): analyze_file returns
\* to main after the message
ParseError_without_exit ==
    /\ pc[1] = "parse"
    /\ file.status = "malformed"
    /\ stdout' = Append(stdout, "Error parsing XML file")
    /\ pc' = [pc EXCEPT ![1] = "returned"]
    /\ UNCHANGED <<file, args, root, analyzer, trace, stderr, exit_code,
                   report>>

\* lines 78-80: ET.parse raises ParseError
ParseError ==
    /\ pc[1] = "parse"
    /\ file.status = "malformed"
    /\ stdout' = Append(stdout, "Error parsing XML file")
    /\ exit_code' = Some(1)
    /\ pc' = [pc EXCEPT ![1] = "exit"]
    /\ UNCHANGED <<file, args, root, analyzer, trace, stderr, report>>

\* lines 81-83: ET.parse raises FileNotFoundError
ParseFileNotFound ==
    /\ pc[1] = "parse"
    /\ file.status = "missing"
    /\ stdout' = Append(stdout, "Error: File not found")
    /\ exit_code' = Some(1)
    /\ pc' = [pc EXCEPT ![1] = "exit"]
    /\ UNCHANGED <<file, args, root, analyzer, trace, stderr, report>>

\* the pass with the warnings list held by the class instead of the
\* instance: every analyzer sees what the pass appended
Pass_shared_warnings(a, at, name, outcome, next) ==
    /\ pc[a] = at
    /\ analyzer' = [b \in Ids |->
                       IF b = a THEN outcome.self
                       ELSE [analyzer[b] EXCEPT
                                !.warnings = outcome.self.warnings]]
    /\ trace' = [trace EXCEPT ![a] = Append(@, name)]
    /\ pc' = [pc EXCEPT ![a] = IF outcome.err THEN "raised" ELSE next]
    /\ UNCHANGED <<file, args, root, stdout, stderr, exit_code, report>>

\* one pass of analyze_plan on analyzer a: the analyzer becomes what the
\* pass left, and the run moves on or propagates the exception
Pass(a, at, name, outcome, next) ==
    /\ pc[a] = at
    /\ analyzer' = [analyzer EXCEPT ![a] = outcome.self]
    /\ trace' = [trace EXCEPT ![a] = Append(@, name)]
    /\ pc' = [pc EXCEPT ![a] = IF outcome.err THEN "raised" ELSE next]
    /\ UNCHANGED <<file, args, root, stdout, stderr, exit_code, report>>

\* line 88
ExtractTotalCost(a) ==
    Pass(a, "total_cost", "_extract_total_cost",
         _extract_total_cost(analyzer[a], root[a]), "operators")

\* line 89
AnalyzeOperators(a) ==
    Pass(a, "operators", "_analyze_operators",
         _analyze_operators(analyzer[a], root[a]), "missing_indexes")

\* line 90
ExtractMissingIndexes(a) ==
    Pass(a, "missing_indexes", "_extract_missing_indexes",
         _extract_missing_indexes(analyzer[a], root[a]), "warnings")

\* line 91
ExtractWarnings(a) ==
    Pass(a, "warnings", "_extract_warnings",
         Ok(_extract_warnings(analyzer[a], root[a])), "returned")

\* the report printed although the analysis raised (the call of line 416
\* wrapped in a handler that swallows the error)
PrintReport_after_error ==
    /\ pc[1] \in {"returned", "raised"}
    /\ report' = print_report(analyzer[1])
    /\ stdout' = Append(stdout, "EXECUTION PLAN ANALYSIS REPORT")
    /\ trace' = [trace EXCEPT ![1] = Append(@, "print_report")]
    /\ exit_code' = Some(0)
    /\ pc' = [pc EXCEPT ![1] = "exit"]
    /\ UNCHANGED <<file, args, root, analyzer, stderr>>

\* line 417 and the return from main
PrintReport ==
    /\ pc[1] = "returned"
    /\ report' = print_report(analyzer[1])
    /\ stdout' = Append(stdout, "EXECUTION PLAN ANALYSIS REPORT")
    /\ trace' = [trace EXCEPT ![1] = Append(@, "print_report")]
    /\ exit_code' = Some(0)
    /\ pc' = [pc EXCEPT ![1] = "exit"]
    /\ UNCHANGED <<file, args, root, analyzer, stderr>>

\* an exception that no handler of analyze_file names leaves main: the
\* interpreter writes the traceback and ends the process with code 1
Uncaught ==
    /\ pc[1] = "raised"
    /\ stderr' = Append(stderr, "Traceback")
    /\ exit_code' = Some(1)
    /\ pc' = [pc EXCEPT ![1] = "exit"]
    /\ UNCHANGED <<file, args, root, analyzer, trace, stdout, report>>

Next ==
    \/ MainFileMissing
    \/ MainBegin
    \/ Unlink
    \/ ParseOk
    \/ ParseError
    \/ ParseFileNotFound
    \/ ExtractTotalCost(1)
    \/ AnalyzeOperators(1)
    \/ ExtractMissingIndexes(1)
    \/ ExtractWarnings(1)
    \/ PrintReport
    \/ Uncaught

Spec == Init /\ [][Next]_vars

\* --- two analyzer objects in one process, each given a document; the
\* passes of the two analyze_plan calls interleave
PairOps ==
    <<CostOp("Table Scan", Num(5)), CostOp("Table Scan", Num(50)),
      CostOp("Hash Match", Num(50))>>
PairDocs ==
    {Doc(st, ops, pw, <<>>) :
        st \in {<<>>, <<Num(100)>>},
        ops \in {<<PairOps[1]>>, <<PairOps[2]>>, <<PairOps[1], PairOps[2]>>,
                 <<PairOps[2], PairOps[3]>>},
        pw \in {<<>>, <<Block(1, 1, <<>>)>>}}
PairThresholds == {DefaultThreshold, Tenths(60)}

InitPair ==
    /\ file = [status |-> "missing", root |-> EmptyDoc]
    /\ args = [threshold |-> DefaultThreshold]
    /\ root \in [Ids -> PairDocs]
    /\ \E t \in [Ids -> PairThresholds] :
          analyzer = [a \in Ids |-> __init__(t[a])]
    /\ pc = [a \in Ids |-> "total_cost"]
    /\ trace = [a \in Ids |-> <<"analyze_plan">>]
    /\ stdout = <<>>
    /\ stderr = <<>>
    /\ exit_code = None
    /\ report = NoReport

NextPair ==
    \/ \E a \in Ids : ExtractTotalCost(a)
    \/ \E a \in Ids : AnalyzeOperators(a)
    \/ \E a \in Ids : ExtractMissingIndexes(a)
    \/ \E a \in Ids : ExtractWarnings(a)

SpecPair == InitPair /\ [][NextPair]_vars

\* --- one analyzer object on which analyze_plan is called again once the
\* previous call has returned
Runs(a) == Cardinality({k \in 1..Len(trace[a]) : trace[a][k] = "analyze_plan"})

AnalyzeAgain(a) ==
    /\ pc[a] = "returned"
    /\ Runs(a) < MaxRuns
    /\ \E d \in PairDocs : root' = [root EXCEPT ![a] = d]
    /\ trace' = [trace EXCEPT ![a] = Append(@, "analyze_plan")]
    /\ pc' = [pc EXCEPT ![a] = "total_cost"]
    /\ UNCHANGED <<file, args, analyzer, stdout, stderr, exit_code, report>>

InitReuse ==
    /\ file = [status |-> "missing", root |-> EmptyDoc]
    /\ args = [threshold |-> DefaultThreshold]
    /\ \E d \in PairDocs : root = [a \in Ids |-> IF a = 1 THEN d ELSE EmptyDoc]
    /\ \E t \in PairThresholds :
          analyzer = [a \in Ids |-> IF a = 1 THEN __init__(t)
                                    ELSE Unconstructed]
    /\ pc = [a \in Ids |-> IF a = 1 THEN "total_cost" ELSE "unused"]
    /\ trace = [a \in Ids |-> IF a = 1 THEN <<"analyze_plan">> ELSE <<>>]
    /\ stdout = <<>>
    /\ stderr = <<>>
    /\ exit_code = None
    /\ report = NoReport

NextReuse ==
    \/ ExtractTotalCost(1)
    \/ AnalyzeOperators(1)
    \/ ExtractMissingIndexes(1)
    \/ ExtractWarnings(1)
    \/ AnalyzeAgain(1)

SpecReuse == InitReuse /\ [][NextReuse]_vars

\* analyze_plan as one call: the four passes in the order of lines 88-91,
\* ended by the first pass that raises
analyze_plan(self, doc) ==
    LET r1 == _extract_total_cost(self, doc)
        r2 == _analyze_operators(r1.self, doc)
        r3 == _extract_missing_indexes(r2.self, doc)
    IN  IF r1.err THEN r1
        ELSE IF r2.err THEN r2
        ELSE IF r3.err THEN r3
        ELSE Ok(_extract_warnings(r3.self, doc))

\* what a fresh analyzer with the threshold of analyzer a holds after
\* analysing the document of analyzer a
FreshResult(a) ==
    analyze_plan(__init__(analyzer[a].threshold_percentage), root[a]).self

\* ------------------------------------------------------------------------
\* Properties
\* ------------------------------------------------------------------------
\* the operators pass of analyzer a has run to its end
OperatorsDone(a) ==
    \/ pc[a] \in {"missing_indexes", "warnings", "returned"}
    \/ pc[a] = "exit" /\ exit_code = Some(0)
    \/ pc[a] = "raised" /\ "_extract_missing_indexes" \in
                              {trace[a][k] : k \in 1..Len(trace[a])}

\* analyze_plan of analyzer a has returned
Analysed(a) ==
    \/ pc[a] = "returned"
    \/ pc[a] = "exit" /\ exit_code = Some(0)

RelOpIds(a) == 1..Len(root[a].relops)
InfoOf(a, i) == _extract_operator_info(analyzer[a], root[a], i)
InfosOf(a) == [i \in RelOpIds(a) |-> InfoOf(a, i)]
CountKind(ws, kind) == Cardinality({k \in 1..Len(ws) : ws[k].kind = kind})
Among(list, x) == \E k \in 1..Len(list) : list[k] = x

\* C1: every operator record carries cost_percentage = 100 * own subtree
\* cost / total_cost when total_cost > 0 and cost_percentage = 0 when
\* total_cost = 0, and the records kept in expensive_operators are such
\* records.
C1_CostPercentage ==
    \A a \in Ids :
        /\ \A i \in RelOpIds(a) :
              ~operator_info_raises(root[a].relops[i]) =>
                  LET own == FloatOf(root[a].relops[i].EstimatedTotalSubtreeCost)
                      total == analyzer[a].total_cost
                      pct == InfoOf(a, i).cost_percentage
                  IN  /\ total > 0 => pct.num * total = 100 * own * pct.den
                      /\ total = 0 => pct.num = 0
                      /\ pct.den > 0
        /\ OperatorsDone(a) =>
              \A k \in 1..Len(analyzer[a].expensive_operators) :
                  Among(InfosOf(a), analyzer[a].expensive_operators[k])

C1_Witness ==
    /\ OperatorsDone(1)
    /\ analyzer[1].total_cost = 40
    /\ \E k \in 1..Len(analyzer[1].expensive_operators) :
          analyzer[1].expensive_operators[k].cost_percentage
              = [num |-> 125, den |-> 1]

ScenarioA ==
    Doc(<<Num(Tenths(10))>>, <<CostOp("Table Scan", Num(50))>>, <<>>, <<>>)

C3_WarningsIgnoreThreshold ==
    /\ (Analysed(1) /\ Analysed(2) /\ root[1] = root[2]) =>
          analyzer[1].warnings = analyzer[2].warnings
    /\ \A a \in Ids :
          Analysed(a) =>
              CountKind(analyzer[a].warnings, "TABLE SCAN") =
                  Cardinality({i \in RelOpIds(a) :
                      root[a].relops[i].PhysicalOp = Str("Table Scan")})

C3_Witness ==
    /\ Analysed(1) /\ Analysed(2) /\ root[1] = root[2]
    /\ analyzer[1].threshold_percentage # analyzer[2].threshold_percentage
    /\ analyzer[1].expensive_operators # analyzer[2].expensive_operators
    /\ \E k \in 1..Len(analyzer[2].warnings) :
          /\ analyzer[2].warnings[k].kind = "TABLE SCAN"
          /\ ~PctAtLeastTenths(analyzer[2].warnings[k].pct,
                               analyzer[2].threshold_percentage)
          /\ ~Among(analyzer[2].expensive_operators,
                    InfoOf(2, 1))

RowWarning(info) ==
    Warning("ROW ESTIMATION ERROR", info.object_name, info.estimated_rows,
            info.actual_rows, NoPct)

\* C4: for an operator with estimated rows e > 0 and actual rows a > 0 the
\* row-estimation warning is in the warnings sequence exactly when a > 10*e
\* or 10*a < e: none for e=100, a=1000 and for e=10, a=1, one for e=100,
\* a=1001.
C4_RowEstimationStrict ==
    OperatorsDone(1) =>
        \A i \in RelOpIds(1) :
            LET info == InfoOf(1, i)
                e == info.estimated_rows
                warned == Among(analyzer[1].warnings, RowWarning(info))
            IN  (info.actual_rows # None /\ e > 0) =>
                    LET a == info.actual_rows[1]
                    IN  /\ a > 0 => (warned <=> (a > 10 * e \/ 10 * a < e))
                        /\ (e = 100 /\ a = 1000) => ~warned
                        /\ (e = 100 /\ a = 1001) => warned
                        /\ (e = 10 /\ a = 1) => ~warned

C4_Witness ==
    /\ OperatorsDone(1)
    /\ \E i \in RelOpIds(1) :
          /\ InfoOf(1, i).estimated_rows = 100
          /\ InfoOf(1, i).actual_rows = Some(1001)
          /\ Among(analyzer[1].warnings, RowWarning(InfoOf(1, i)))

\* C5 as stated: every row-estimation warning belongs to an operator whose
\* estimated and actual row counts are both known and non-zero.
C5_BothNonZero ==
    \A k \in 1..Len(analyzer[1].warnings) :
        LET w == analyzer[1].warnings[k]
        IN  w.kind = "ROW ESTIMATION ERROR" =>
                /\ w.rows # 0
                /\ w.actual # None
                /\ w.actual # Some(0)

\* C5 amended: a row-estimation warning is emitted only for an operator
\* whose actual row count is known and whose estimated row count is
\* positive; an operator whose estimate is zero or whose actual count is
\* unknown never produces it, and a known actual count of zero with a
\* positive estimate does produce it.
C5_KnownActualPositiveEstimate ==
    /\ \A k \in 1..Len(analyzer[1].warnings) :
          LET w == analyzer[1].warnings[k]
          IN  w.kind = "ROW ESTIMATION ERROR" =>
                  w.rows > 0 /\ w.actual # None
    /\ OperatorsDone(1) =>
          \A i \in RelOpIds(1) :
              LET info == InfoOf(1, i)
                  warned == Among(analyzer[1].warnings, RowWarning(info))
              IN  /\ (info.actual_rows = None \/ info.estimated_rows = 0)
                         => ~warned
                  /\ (info.actual_rows = Some(0) /\ info.estimated_rows > 0)
                         => warned

C5_Witness ==
    /\ OperatorsDone(1)
    /\ \E k \in 1..Len(analyzer[1].warnings) :
          /\ analyzer[1].warnings[k].kind = "ROW ESTIMATION ERROR"
          /\ analyzer[1].warnings[k].actual = Some(0)
          /\ analyzer[1].warnings[k].rows = 100

\* the missing-index pass of analyzer a has run to its end
MissingDone(a) ==
    \/ pc[a] \in {"warnings", "returned"}
    \/ pc[a] = "exit" /\ exit_code = Some(0)

\* the index name written in a synthesized statement: what stands between
\* "CREATE NONCLUSTERED INDEX " and the first line break
IndexNameIn(statement) ==
    LET rest == SubSeq(statement, Len(sCreate) + 1, Len(statement))
        nl == CHOOSE i \in 1..Len(rest) :
                  rest[i] = "\n" /\ \A j \in 1..(i - 1) : rest[j] # "\n"
    IN  SubSeq(rest, 1, nl - 1)

\* C6: the index name of every synthesized statement has at most 60
\* characters: it is the first 60 characters of the composed name when that
\* is longer than 60, and the composed name itself otherwise.
C6_IndexNameAtMost60 ==
    \A k \in 1..Len(analyzer[1].missing_indexes) :
        LET m == analyzer[1].missing_indexes[k]
            composed == raw_index_name(m.table_name, m.equality_columns)
            name == IndexNameIn(m.create_statement)
        IN  /\ SubSeq(m.create_statement, 1, Len(sCreate)) = sCreate
            /\ Len(name) <= 60
            /\ Len(composed) > 60 => name = SubSeq(composed, 1, 60)
            /\ Len(composed) <= 60 => name = composed

C6_Witness ==
    /\ MissingDone(1)
    /\ \E k \in 1..Len(analyzer[1].missing_indexes) :
          LET m == analyzer[1].missing_indexes[k]
          IN  /\ Len(raw_index_name(m.table_name, m.equality_columns)) > 60
              /\ Len(IndexNameIn(m.create_statement)) = 60

ScenarioB ==
    Doc(<<Num(100)>>, <<>>, <<>>,
        <<MissingIndexGroup(Num(955),
            <<MissingIndexNode(sDboEmployees,
                <<ColumnGroup(sEQUALITY, <<sDepartment>>),
                  ColumnGroup(sINCLUDE, <<sSalary>>)>>)>>)>>)

ScenarioBStatement ==
    sCreate \o sIX \o <<"E","m","p","l","o","y","e","e","s","_">>
            \o sDepartment
            \o sOn \o sDboEmployees \o <<" ","(","[">> \o sDepartment
            \o <<"]",")">>
            \o sInclude \o <<"[">> \o sSalary \o <<"]",")",";">>

\* C7: in scenario B (table [dbo].[Employees], equality column Department,
\* included column Salary) the synthesized statement is
\* CREATE NONCLUSTERED INDEX IX_Employees_Department
\* ON [dbo].[Employees] ([Department])
\* INCLUDE ([Salary]);
C7_ScenarioBStatement ==
    (MissingDone(1) /\ root[1] = ScenarioB) =>
        /\ Len(analyzer[1].missing_indexes) = 1
        /\ analyzer[1].missing_indexes[1].create_statement
              = ScenarioBStatement

\* C8: a document whose plan-level Warnings block holds a NoJoinPredicate
\* marker ends with exactly one cartesian-product warning, whatever its
\* operators are.
C8_OneCartesianWarning ==
    (Analysed(1) /\ Len(root[1].plan_warnings) = 1
                 /\ root[1].plan_warnings[1].NoJoinPredicate > 0) =>
        CountKind(analyzer[1].warnings, "NO JOIN PREDICATE") = 1

\* C9: a run started on a path that does not exist ends at once with exit
\* code 1: no method of the analyzer is entered, nothing is analysed, no
\* report is written, and an ended run takes no further step.
C9_MissingFileExits ==
    [][/\ (pc[1] = "main" /\ file.status = "missing") =>
              /\ pc'[1] = "exit"
              /\ exit_code' = Some(1)
              /\ trace'[1] = <<>>
              /\ analyzer' = analyzer
              /\ report' = NoReport
       /\ pc[1] # "exit"]_vars

C9_Witness ==
    /\ pc[1] = "exit"
    /\ file.status = "missing"
    /\ trace[1] = <<>>
    /\ exit_code = Some(1)
    /\ report = NoReport

\* C10: a run on a file that is not well-formed XML never enters an
\* analysis pass, accumulates no result, writes no report, and ends with
\* exit code 1.
C10_MalformedExits ==
    file.status = "malformed" =>
        /\ pc[1] \in {"main", "parse", "exit"}
        /\ trace[1] \in {<<>>, <<"analyze_file">>}
        /\ report = NoReport
        /\ analyzer[1].expensive_operators = <<>>
        /\ analyzer[1].missing_indexes = <<>>
        /\ analyzer[1].warnings = <<>>
        /\ analyzer[1].total_cost = 0
        /\ pc[1] = "exit" =>
              /\ exit_code = Some(1)
              /\ stdout = <<"Analyzing execution plan",
                            "Error parsing XML file">>

C10_Witness ==
    /\ file.status = "malformed"
    /\ pc[1] = "exit"
    /\ exit_code = Some(1)
    /\ trace[1] = <<"analyze_file">>

\* C11: on both fatal errors (path does not exist, document does not parse)
\* the diagnostic line is on the error stream and not on standard output
\* when the process has ended with code 1.
C11_DiagnosticOnErrorStream ==
    (pc[1] = "exit" /\ exit_code = Some(1)
                    /\ file.status \in {"missing", "malformed"}) =>
        /\ Len(stderr) >= 1
        /\ \A k \in 1..Len(stdout) :
              stdout[k] \notin {"Error: File not found",
                                "Error parsing XML file"}

\* C12: a numeric attribute that is absent, empty or unparsable never ends
\* the analysis: the run of a well-formed document raises nothing, ends
\* with exit code 0 and writes its report.
C12_NumericAttributesTolerated ==
    file.status = "wellformed" =>
        /\ pc[1] # "raised"
        /\ pc[1] = "exit" => (exit_code = Some(0) /\ report # NoReport)

\* C13: the results an analyzer holds after analysing a document are those
\* a fresh analyzer holds after analysing that document, also when the
\* analyzer has analysed another document before.
C13_SameAsFreshAnalyzer ==
    Analysed(1) =>
        /\ analyzer[1].total_cost = FreshResult(1).total_cost
        /\ analyzer[1].expensive_operators = FreshResult(1).expensive_operators
        /\ analyzer[1].warnings = FreshResult(1).warnings
        /\ analyzer[1].missing_indexes = FreshResult(1).missing_indexes

\* C14: the cost_percentage of every operator record lies in [0, 100], also
\* in documents with several statements and operators that cost more than
\* the total cost that was picked.
C14_PercentageWithin0And100 ==
    OperatorsDone(1) =>
        \A i \in RelOpIds(1) :
            LET pct == InfoOf(1, i).cost_percentage
            IN  pct.num >= 0 /\ pct.num <= 100 * pct.den

Elements(list) == {list[k] : k \in 1..Len(list)}

\* C15: in every MissingIndex record no column name is in more than one of
\* equality_columns, inequality_columns, included_columns.
C15_RolesDisjoint ==
    \A k \in 1..Len(analyzer[1].missing_indexes) :
        LET m == analyzer[1].missing_indexes[k]
        IN  /\ Elements(m.equality_columns)
                  \cap Elements(m.inequality_columns) = {}
            /\ Elements(m.equality_columns)
                  \cap Elements(m.included_columns) = {}
            /\ Elements(m.inequality_columns)
                  \cap Elements(m.included_columns) = {}

Rearrangements(n) ==
    {p \in [1..n -> 1..n] : \A i, j \in 1..n : i # j => p[i] # p[j]}

\* C16: the report lists the expensive operators in non-increasing
\* cost_percentage with equal ones in the order of the stored list, and the
\* missing indexes in non-increasing impact; each list is a permutation of
\* the stored list.
C16_ReportSorted ==
    report # NoReport =>
        LET ops == analyzer[1].expensive_operators
            shown == report[1].expensive_operators
            idxs == analyzer[1].missing_indexes
            listed == report[1].missing_indexes
        IN  /\ Len(shown) = Len(ops)
            /\ \E p \in Rearrangements(Len(ops)) :
                  /\ \A k \in 1..Len(ops) : shown[k] = ops[p[k]]
                  /\ \A k, l \in 1..Len(ops) :
                        k < l =>
                            /\ PctGE(shown[k].cost_percentage,
                                     shown[l].cost_percentage)
                            /\ shown[k].cost_percentage
                                   = shown[l].cost_percentage
                               => p[k] < p[l]
            /\ Len(listed) = Len(idxs)
            /\ \E p \in Rearrangements(Len(idxs)) :
                  \A k \in 1..Len(idxs) : listed[k] = idxs[p[k]]
            /\ \A k, l \in 1..Len(idxs) :
                  k < l => listed[k].impact >= listed[l].impact

C16_Witness ==
    /\ report # NoReport
    /\ Len(analyzer[1].expensive_operators) >= 2
    /\ analyzer[1].expensive_operators[1] # analyzer[1].expensive_operators[2]
    /\ analyzer[1].expensive_operators[1].cost_percentage
           = analyzer[1].expensive_operators[2].cost_percentage
    /\ report[1].expensive_operators[1] = analyzer[1].expensive_operators[1]

\* C17: the table_name of every MissingIndex record holds no "[" and no "]",
\* whatever the Table attribute was, multi-part names included.
C17_TableNameWithoutBrackets ==
    MissingDone(1) =>
        \A k \in 1..Len(analyzer[1].missing_indexes) :
            /\ ~Contains(analyzer[1].missing_indexes[k].table_name, <<"[">>)
            /\ ~Contains(analyzer[1].missing_indexes[k].table_name, <<"]">>)

\* C18: of two analyzers whose passes interleave in any order, each ends
\* with exactly what a single analysis of its document under its threshold
\* gives.
C18_InterleavedAsAlone ==
    \A a \in Ids : Analysed(a) => analyzer[a] = FreshResult(a)

C18_Witness ==
    /\ pc[1] = "returned" /\ pc[2] = "returned"
    /\ root[1] # root[2]
    /\ analyzer[1].warnings # analyzer[2].warnings
    /\ analyzer[1].warnings # <<>> /\ analyzer[2].warnings # <<>>
    /\ analyzer[1].total_cost # analyzer[2].total_cost

\* the names the first Object of a non-empty list gives
FirstObjectNames(objs) ==
    [object_name |-> get(objs[1].Table, get(objs[1].Index, "")),
     index_name |-> get(objs[1].Index, "")]

\* relop i has no relop beneath it
Leaf(a, i) == \A j \in RelOpIds(a) : ~Beneath(root[a].relops, i, j)

\* C19: an operator with object references gets object_name and index_name
\* from the first of them: its Table, else its Index, else the empty string.
C19_FirstObjectWins ==
    OperatorsDone(1) =>
        \A i \in RelOpIds(1) :
            (Leaf(1, i) /\ root[1].relops[i].objects # <<>>) =>
                LET first == FirstObjectNames(root[1].relops[i].objects)
                IN  /\ InfoOf(1, i).object_name = first.object_name
                    /\ InfoOf(1, i).index_name = first.index_name

\* C20: an operator without an object reference of its own has empty
\* object_name and index_name, and the warnings of an operator's record are
\* those of its own warnings blocks only.
C20_OperatorLocal ==
    OperatorsDone(1) =>
        \A i \in RelOpIds(1) :
            /\ root[1].relops[i].objects = <<>> =>
                  /\ InfoOf(1, i).object_name = ""
                  /\ InfoOf(1, i).index_name = ""
            /\ InfoOf(1, i).warnings
                   = warning_loop(root[1].relops[i].warnings)

EndsWith(s, tail) ==
    /\ Len(s) >= Len(tail)
    /\ SubSeq(s, Len(s) - Len(tail) + 1, Len(s)) = tail

\* "[c1], [c2], ..." for a list of column names
ColumnList(columns) ==
    join(<<",", " ">>,
         [k \in 1..Len(columns) |-> <<"[">> \o columns[k] \o <<"]">>])

\* C21: every synthesized statement ends with the key list of the equality
\* columns followed by the inequality columns, each in stored order, and
\* then with an INCLUDE clause listing the included columns in order exactly
\* when the included list is not empty.
C21_KeyListAndIncludeClause ==
    MissingDone(1) =>
        \A k \in 1..Len(analyzer[1].missing_indexes) :
            LET m == analyzer[1].missing_indexes[k]
                keys == <<" ", "(">>
                        \o ColumnList(m.equality_columns
                                      \o m.inequality_columns)
                        \o <<")">>
            IN  /\ Contains(m.create_statement, sInclude)
                       <=> m.included_columns # <<>>
                /\ m.included_columns = <<>> =>
                       EndsWith(m.create_statement, keys \o <<";">>)
                /\ m.included_columns # <<>> =>
                       EndsWith(m.create_statement,
                                keys \o sInclude
                                     \o ColumnList(m.included_columns)
                                     \o <<")", ";">>)

C21_Witness ==
    /\ MissingDone(1)
    /\ \E k \in 1..Len(analyzer[1].missing_indexes) :
          LET m == analyzer[1].missing_indexes[k]
          IN  /\ Len(m.equality_columns) >= 2
              /\ m.inequality_columns # <<>>
              /\ m.included_columns # <<>>
              /\ Elements(m.equality_columns)
                     \cap Elements(m.inequality_columns) = {}

\* the MissingIndex nodes of the document of analyzer a, in document order
RECURSIVE MissingNodesFrom(_, _)
MissingNodesFrom(groups, g) ==
    IF g > Len(groups) THEN <<>>
    ELSE groups[g].indexes \o MissingNodesFrom(groups, g + 1)
MissingNodes(a) == MissingNodesFrom(root[a].missing, 1)

\* the column names, brackets stripped, of all the column groups of a
\* MissingIndex node that carry the given usage tag, in source order
RECURSIVE SourceColumns(_, _)
SourceColumns(groups, usage) ==
    IF groups = <<>> THEN <<>>
    ELSE (IF Head(groups).Usage = usage
          THEN [k \in 1..Len(Head(groups).columns) |->
                   strip(Head(groups).columns[k], Brackets)]
          ELSE <<>>)
         \o SourceColumns(Tail(groups), usage)

\* C22: each column list of a MissingIndex record holds, in source order,
\* the columns of every column group of the suggestion tagged with its
\* usage, also when several groups carry the same tag; columns of groups
\* with another tag are in no list.
C22_GroupsPartitionedByUsage ==
    MissingDone(1) =>
        /\ Len(analyzer[1].missing_indexes) = Len(MissingNodes(1))
        /\ \A k \in 1..Len(analyzer[1].missing_indexes) :
              LET m == analyzer[1].missing_indexes[k]
                  groups == MissingNodes(1)[k].groups
              IN  /\ m.equality_columns = SourceColumns(groups, sEQUALITY)
                  /\ m.inequality_columns
                         = SourceColumns(groups, sINEQUALITY)
                  /\ m.included_columns = SourceColumns(groups, sINCLUDE)

\* the markers of one kind in a sequence of warnings blocks
RECURSIVE SumMarkers(_, _)
SumMarkers(blocks, field) ==
    IF blocks = <<>> THEN 0
    ELSE Head(blocks)[field] + SumMarkers(Tail(blocks), field)

\* C23: only the plan-level warnings blocks count: the cartesian-product
\* alerts are one per plan-level block with a NoJoinPredicate marker and the
\* unmatched-indexes alerts one per UnmatchedIndexes marker of a plan-level
\* block; a block nested in an operator adds none.
C23_OnlyPlanLevelBlocks ==
    Analysed(1) =>
        /\ CountKind(analyzer[1].warnings, "NO JOIN PREDICATE")
               = Cardinality({b \in 1..Len(root[1].plan_warnings) :
                                 root[1].plan_warnings[b].NoJoinPredicate > 0})
        /\ CountKind(analyzer[1].warnings, "UNMATCHED INDEXES")
               = SumMarkers(root[1].plan_warnings, "UnmatchedIndexes")

\* what the classification rules give for the operators from the i-th on,
\* in document order
RECURSIVE ClassificationWarnings(_, _)
ClassificationWarnings(a, i) ==
    IF i > Len(root[a].relops) THEN <<>>
    ELSE kind_warnings(InfoOf(a, i))
         \o implicit_warnings(InfoOf(a, i), InfoOf(a, i).warnings)
         \o row_warnings(InfoOf(a, i))
         \o ClassificationWarnings(a, i + 1)

\* C24: after an analysis the warnings sequence is the classification
\* warnings of the operators in document order followed by the warnings
\* of the plan-level collector, nothing dropped as a duplicate (k Table
\* Scan operators give k table-scan entries), and the report prints the
\* sequence in that order.
C24_WarningsInEmissionOrder ==
    Analysed(1) =>
        /\ analyzer[1].warnings
               = ClassificationWarnings(1, 1)
                 \o extract_warnings_loop(all_warnings_blocks(root[1]))
        /\ CountKind(analyzer[1].warnings, "TABLE SCAN")
               = Cardinality({i \in RelOpIds(1) :
                     root[1].relops[i].PhysicalOp = Str("Table Scan")})
        /\ report # NoReport => report[1].warnings = analyzer[1].warnings

C24_Witness ==
    /\ report # NoReport
    /\ Len(analyzer[1].warnings) >= 4
    /\ analyzer[1].warnings[1].kind = "TABLE SCAN"
    /\ analyzer[1].warnings[2] = analyzer[1].warnings[1]
    /\ analyzer[1].warnings[Len(analyzer[1].warnings)].kind
           = "UNMATCHED INDEXES"
    /\ analyzer[1].warnings[Len(analyzer[1].warnings) - 1].kind
           = "UNMATCHED INDEXES"

\* the operators of analyzer a that a rule of the table names
OpsNamed(a, names) ==
    {i \in RelOpIds(a) : root[a].relops[i].PhysicalOp \in names}
KindWarningKinds ==
    {"TABLE SCAN", "CLUSTERED INDEX SCAN", "KEY LOOKUP", "SORT",
     "HASH MATCH"}

\* C25: an operator gives an operator-kind warning exactly when it is a
\* Table Scan, a Clustered Index Scan of more than 20 percent, a Key Lookup
\* or RID Lookup, a Sort of more than 100000 estimated rows or a Hash Match
\* of more than 25 percent; the bounds themselves give nothing, and no
\* operator gives two.
C25_RuleTableExact ==
    Analysed(1) =>
        LET ws == analyzer[1].warnings
            Over(i, n) == InfoOf(1, i).cost_percentage.num
                              > n * InfoOf(1, i).cost_percentage.den
        IN  /\ CountKind(ws, "TABLE SCAN")
                   = Cardinality(OpsNamed(1, {Str("Table Scan")}))
            /\ CountKind(ws, "CLUSTERED INDEX SCAN")
                   = Cardinality(
                         {i \in OpsNamed(1, {Str("Clustered Index Scan")}) :
                             Over(i, 20)})
            /\ CountKind(ws, "KEY LOOKUP")
                   = Cardinality(OpsNamed(1, {Str("Key Lookup"),
                                              Str("RID Lookup")}))
            /\ CountKind(ws, "SORT")
                   = Cardinality({i \in OpsNamed(1, {Str("Sort")}) :
                                     InfoOf(1, i).estimated_rows > 100000})
            /\ CountKind(ws, "HASH MATCH")
                   = Cardinality({i \in OpsNamed(1, {Str("Hash Match")}) :
                                     Over(i, 25)})
            /\ Cardinality({k \in 1..Len(ws) :
                               ws[k].kind \in KindWarningKinds})
                   <= Len(root[1].relops)

C25_Witness ==
    /\ Analysed(1)
    /\ Len(root[1].relops) = 1
    /\ root[1].relops[1].PhysicalOp = Str("Clustered Index Scan")
    /\ InfoOf(1, 1).cost_percentage = Ratio(20, 1)
    /\ InfoOf(1, 1).estimated_rows = 100000
    /\ analyzer[1].warnings = <<>>

\* the cost-model pass of analyzer a has run to its end
CostDone(a) ==
    \/ pc[a] \in {"operators", "missing_indexes", "warnings", "returned"}
    \/ pc[a] = "exit" /\ exit_code = Some(0)
    \/ pc[a] = "raised" /\ "_analyze_operators" \in
                              {trace[a][k] : k \in 1..Len(trace[a])}

\* position of a pass in the trace of analyzer a, 0 when it has not run
PositionOf(a, name) ==
    LET at == {k \in 1..Len(trace[a]) : trace[a][k] = name}
    IN  IF at = {} THEN 0 ELSE CHOOSE k \in at : \A l \in at : k <= l

\* total_cost after the pass when the statement chosen is the first whose
\* attribute is of one of the given kinds, an empty value read as zero
TotalFromFirst(a, kinds) ==
    LET stmts == root[a].stmts
        at == {i \in 1..Len(stmts) : stmts[i].k \in kinds}
    IN  IF at = {} THEN analyzer[a].total_cost = 0
        ELSE LET first == CHOOSE i \in at : \A j \in at : i <= j
             IN  analyzer[a].total_cost
                     = (IF stmts[first].k = "num" THEN stmts[first].v ELSE 0)

\* C26: after the cost-model pass total_cost is the cost of the first
\* statement that carries the attribute, 0 when none does, and the pass
\* runs before the operators pass.
C26_FirstCarryingStatement ==
    CostDone(1) =>
        /\ TotalFromFirst(1, {"empty", "bad", "num"})
        /\ PositionOf(1, "_analyze_operators") # 0 =>
               PositionOf(1, "_extract_total_cost")
                   < PositionOf(1, "_analyze_operators")

\* C26 amended: after the cost-model pass has completed, total_cost is the
\* cost of the first statement that carries a non-empty value of the
\* attribute (statements without it or with an empty value are skipped),
\* 0 when none does, and the pass runs before the operators pass.
C26_FirstNonEmptyStatement ==
    CostDone(1) =>
        /\ TotalFromFirst(1, {"bad", "num"})
        /\ PositionOf(1, "_extract_total_cost") # 0
        /\ PositionOf(1, "_analyze_operators") # 0 =>
               PositionOf(1, "_extract_total_cost")
                   < PositionOf(1, "_analyze_operators")

C26_Witness ==
    /\ CostDone(1)
    /\ PositionOf(1, "_analyze_operators") # 0
    /\ Len(root[1].stmts) = 2
    /\ root[1].stmts[1] = Empty
    /\ root[1].stmts[2] = Num(100)
    /\ analyzer[1].total_cost = 100

\* the analyzer of a fresh analysis of the document of analyzer a after
\* its cost-model and operators passes
AfterOperators(a) ==
    _analyze_operators(
        _extract_total_cost(__init__(analyzer[a].threshold_percentage),
                            root[a]).self,
        root[a]).self

IsPrefix(s, t) == Len(s) <= Len(t) /\ SubSeq(t, 1, Len(s)) = s

\* C27: no result list is written by more than one of the Operator
\* Classifier, the Missing-Index Extractor and the Plan-Level Warning
\* Collector: the warnings list does not hold entries of the classifier
\* and entries of the collector, the other lists are those of their one
\* writer, and total_cost is as the cost-model pass left it.
C27_DisjointResultLists ==
    Analysed(1) =>
        /\ ~(/\ AfterOperators(1).warnings # <<>>
             /\ Len(analyzer[1].warnings) > Len(AfterOperators(1).warnings))
        /\ analyzer[1].expensive_operators
               = AfterOperators(1).expensive_operators
        /\ analyzer[1].total_cost = AfterOperators(1).total_cost

\* C27 amended: the operators pass writes expensive_operators and appends
\* to warnings, the missing-index pass writes missing_indexes only, the
\* plan-level pass appends to warnings only; no pass removes or changes an
\* entry already held, and none of the three changes total_cost.
C27_WritersOfEachList ==
    [][\A a \in Ids :
          LET old == analyzer[a]
              new == analyzer'[a]
          IN  /\ (pc[a] = "operators" /\ pc'[a] # pc[a]) =>
                    /\ new.missing_indexes = old.missing_indexes
                    /\ new.total_cost = old.total_cost
                    /\ IsPrefix(old.expensive_operators,
                                new.expensive_operators)
                    /\ IsPrefix(old.warnings, new.warnings)
              /\ (pc[a] = "missing_indexes" /\ pc'[a] # pc[a]) =>
                    /\ new.expensive_operators = old.expensive_operators
                    /\ new.warnings = old.warnings
                    /\ new.total_cost = old.total_cost
                    /\ IsPrefix(old.missing_indexes, new.missing_indexes)
              /\ (pc[a] = "warnings" /\ pc'[a] # pc[a]) =>
                    /\ new.expensive_operators = old.expensive_operators
                    /\ new.missing_indexes = old.missing_indexes
                    /\ new.total_cost = old.total_cost
                    /\ IsPrefix(old.warnings, new.warnings)]_vars

C27_Witness ==
    /\ Analysed(1)
    /\ AfterOperators(1).warnings # <<>>
    /\ Len(analyzer[1].warnings) > Len(AfterOperators(1).warnings)
    /\ IsPrefix(AfterOperators(1).warnings, analyzer[1].warnings)
    /\ analyzer[1].expensive_operators # <<>>

\* the text holds CONVERT_IMPLICIT at position i, letters of either case
MarkerAt(text, i) ==
    /\ i + Len(ConvertImplicit) - 1 <= Len(text)
    /\ \A j \in 1..Len(ConvertImplicit) :
          text[i + j - 1] \in {ConvertImplicit[j], sConvertImplicitLower[j]}
HasMarker(text) == \E i \in 1..Len(text) : MarkerAt(text, i)

\* the implicit-conversion warnings due for the operators from the i-th on
RECURSIVE ImplicitDue(_, _)
ImplicitDue(a, i) ==
    IF i > Len(root[a].relops) THEN <<>>
    ELSE LET info == InfoOf(a, i)
         IN  [k \in 1..Cardinality({l \in 1..Len(info.warnings) :
                                       HasMarker(info.warnings[l])}) |->
                 Warning("IMPLICIT CONVERSION", info.object_name, 0, None,
                         NoPct)]
             \o ImplicitDue(a, i + 1)

\* C28: the implicit-conversion warnings of an analysis are one per
\* operator-local warning string that holds CONVERT_IMPLICIT in any case,
\* each naming the object of its operator, and no other; the operator-kind
\* warning of such an operator is emitted as well.
C28_ImplicitConversionPerMarker ==
    Analysed(1) =>
        /\ SelectSeq(analyzer[1].warnings,
                     LAMBDA w : w.kind = "IMPLICIT CONVERSION")
               = ImplicitDue(1, 1)
        /\ \A i \in RelOpIds(1) :
              root[1].relops[i].PhysicalOp = Str("Table Scan") =>
                  \E k \in 1..Len(analyzer[1].warnings) :
                      analyzer[1].warnings[k].kind = "TABLE SCAN"

C28_Witness ==
    /\ Analysed(1)
    /\ Len(root[1].relops) = 1
    /\ InfoOf(1, 1).warnings
           = <<NoStatsPrefix \o sConvertImplicitLower, NoStatsPrefix \o sId>>
    /\ Len(analyzer[1].warnings) = 3
    /\ analyzer[1].warnings[1].kind = "TABLE SCAN"
    /\ analyzer[1].warnings[2].kind = "IMPLICIT CONVERSION"
    /\ analyzer[1].warnings[2].object = "Orders"
    /\ analyzer[1].warnings[3].kind = "ROW ESTIMATION ERROR"

\* C29: the row-estimation check never divides by zero: for an operator
\* whose estimated row count is 0 (attribute absent, zero, or a fraction
\* below 1) no ratio is computed and no row-estimation warning is emitted,
\* whatever its actual row count.
C29_NoDivisionByZero ==
    OperatorsDone(1) =>
        \A i \in RelOpIds(1) :
            LET info == InfoOf(1, i)
            IN  /\ ~ratio_raises(info)
                /\ info.estimated_rows = 0 =>
                       /\ row_warnings(info) = <<>>
                       /\ \A k \in 1..Len(analyzer[1].warnings) :
                             analyzer[1].warnings[k].kind
                                 = "ROW ESTIMATION ERROR"
                             => analyzer[1].warnings[k].rows # 0

C29_Witness ==
    /\ Analysed(1)
    /\ Len(root[1].relops) = 1
    /\ root[1].relops[1].EstimateRows = Num(5)
    /\ InfoOf(1, 1).estimated_rows = 0
    /\ InfoOf(1, 1).actual_rows = Some(1000)
    /\ analyzer[1].warnings = <<>>

FullRun ==
    <<"analyze_file", "analyze_plan", "_extract_total_cost",
      "_analyze_operators", "_extract_missing_indexes", "_extract_warnings",
      "print_report">>

\* C30: a report exists only after the four passes have run in their
\* order and print_report after them; a run that ended without that, in
\* main, in the parse or in a pass that raised, has no report and a
\* non-zero exit code.
C30_ReportOnlyAfterFourPasses ==
    /\ report # NoReport =>
          /\ trace[1] = FullRun
          /\ exit_code = Some(0)
    /\ (\E k \in 1..Len(trace[1]) : trace[1][k] = "print_report") =>
          trace[1] = FullRun
    /\ (pc[1] = "exit" /\ trace[1] # FullRun) =>
          /\ report = NoReport
          /\ exit_code # None
          /\ exit_code # Some(0)
    /\ pc[1] = "raised" => report = NoReport /\ exit_code = None

C30_Witness ==
    /\ pc[1] = "exit"
    /\ trace[1] = SubSeq(FullRun, 1, 5)
    /\ report = NoReport
    /\ exit_code = Some(1)
    /\ Len(stderr) = 1

====
